---------------------------- MODULE Spec2Model ----------------------------
(***************************************************************************)
(* Model of debug-host.py: a straight-line script that queries the host    *)
(* (platform module, os.uname, os.environ, os.path.exists) and prints one  *)
(* labelled line per query.                                                *)
(*                                                                         *)
(* The host (platform facts, environment, filesystem) is chosen in Init    *)
(* and is only read by the script.  Each print statement of the script is  *)
(* one action; the program counter pc names the source line that runs      *)
(* next.  The script is run MaxRuns times in succession on the same host,  *)
(* the previous run's output and exit code being kept for comparison.      *)
(*                                                                         *)
(* A printed line is a record [pre, label, value]: the text written is     *)
(* pre, then label, then value, then a newline (an f-string is its literal *)
(* part followed by the formatted value).                                  *)
(***************************************************************************)
EXTENDS Naturals, Sequences, FiniteSets

VARIABLES
    host,       \* platform facts of the host: what platform.*, sys.platform, os.uname give
    env,        \* os.environ: a function from the names that are set to their values
    fs,         \* filesystem: for each probed path, "absent", "present" or "denied"
    pc,         \* source line about to run, or "end" / "exited"
    out,        \* standard output of the current run: the lines printed so far
    stderr,     \* standard error of the current run
    exitCode,   \* exit code of the current run; meaningful when pc = "exited"
    run,        \* number of the current run, 1 .. MaxRuns
    prevOut,    \* standard output of the previous run
    prevExit    \* exit code of the previous run

vars == <<host, env, fs, pc, out, stderr, exitCode, run, prevOut, prevExit>>

hostState == <<host, env, fs>>

\* Number of successive runs of the script on the host.
MaxRuns == 2

-----------------------------------------------------------------------------
(* The hosts, environments and filesystems the script is run on.           *)

\* os.uname is available on Unix only; on Windows the os module has no such attribute.
Hosts ==
    { [system |-> "Linux", machine |-> "x86_64",
       platform |-> "Linux-6.1.0-x86_64-with-glibc2.36", sysplatform |-> "linux",
       hasUname |-> TRUE,
       uname |-> "posix.uname_result(sysname='Linux', nodename='vm', release='6.1.0', version='#1 SMP', machine='x86_64')"],
      [system |-> "Darwin", machine |-> "arm64",
       platform |-> "macOS-14.4-arm64-arm-64bit", sysplatform |-> "darwin",
       hasUname |-> TRUE,
       uname |-> "posix.uname_result(sysname='Darwin', nodename='mac', release='23.4.0', version='Darwin Kernel Version 23.4.0', machine='arm64')"],
      [system |-> "Windows", machine |-> "AMD64",
       platform |-> "Windows-10-10.0.19045-SP0", sysplatform |-> "win32",
       hasUname |-> FALSE,
       uname |-> ""] }

EnvNames == {"OSTYPE", "HOSTTYPE"}

EnvValues == {"", "linux-gnu"}

\* Every environment: any subset of the names set, each to any of the values.
Envs == UNION { [S -> EnvValues] : S \in SUBSET EnvNames }

\* The paths probed, in source order.
Paths == <<"/proc", "/sys", "/run", "/lib64", "/System", "/Applications", "/usr/lib/dyld">>

PathSet == { Paths[i] : i \in 1..Len(Paths) }

\* "denied": the path exists but os.stat on it raises PermissionError.
PathStatus == {"absent", "present", "denied"}

\* Whether the path exists on the host, seen or not by this process.
OnHost(p) == fs[p] # "absent"

-----------------------------------------------------------------------------
(* What the script computes.                                               *)

\* str(b) of a Python bool, as an f-string formats it.
PyBool(b) == IF b THEN "True" ELSE "False"

\* os.environ.get(key, default)
EnvGet(key, default) == IF key \in DOMAIN env THEN env[key] ELSE default

\* os.path.exists(p): os.stat(p) succeeded; OSError (a missing path, a
\* permission error) is caught and gives False.
PathExists(p) == fs[p] = "present"

Line(pre, label, value) == [pre |-> pre, label |-> label, value |-> value]

\* print(...) of one line: the line is appended to standard output and
\* nothing else changes.
print(line) ==
    /\ out' = Append(out, line)
    /\ UNCHANGED <<host, env, fs, stderr, exitCode, run, prevOut, prevExit>>

-----------------------------------------------------------------------------
Init ==
    /\ host \in Hosts
    /\ env \in Envs
    /\ fs \in [PathSet -> PathStatus]
    /\ pc = "L7"
    /\ out = <<>>
    /\ stderr = <<>>
    /\ exitCode = 0
    /\ run = 1
    /\ prevOut = <<>>
    /\ prevExit = 0

PrintHeader ==
    /\ pc = "L7"
    /\ print(Line("", "=== Host Detection Debug ===", ""))
    /\ pc' = "L8"

PrintSystem ==
    /\ pc = "L8"
    /\ print(Line("", "Python platform.system(): ", host.system))
    /\ pc' = "L9"

PrintMachine ==
    /\ pc = "L9"
    /\ print(Line("", "Python platform.machine(): ", host.machine))
    /\ pc' = "L10"

PrintPlatform ==
    /\ pc = "L10"
    /\ print(Line("", "Python platform.platform(): ", host.platform))
    /\ pc' = "L11"

PrintSysPlatform ==
    /\ pc = "L11"
    /\ print(Line("", "Python sys.platform: ", host.sysplatform))
    /\ pc' = "L12"

\* Variant: the failure of os.uname() is caught and a placeholder printed.
PrintUnameCaught ==
    /\ pc = "L12"
    /\ print(Line("", "OS uname: ", IF host.hasUname THEN host.uname ELSE "unavailable"))
    /\ pc' = "L13"

\* Variant: the label is written before os.uname() is called.
PrintUnamePartial ==
    /\ pc = "L12"
    /\ \/ /\ host.hasUname
          /\ print(Line("", "OS uname: ", host.uname))
          /\ pc' = "L13"
       \/ /\ ~host.hasUname
          /\ out' = Append(out, Line("", "OS uname: ", ""))
          /\ pc' = "exited"
          /\ exitCode' = 1
          /\ stderr' = Append(stderr, "AttributeError: module 'os' has no attribute 'uname'")
          /\ UNCHANGED <<host, env, fs, run, prevOut, prevExit>>

\* os.uname() raises AttributeError where the os module has none: nothing is
\* printed, the traceback goes to stderr and the interpreter exits with 1.
PrintUname ==
    /\ pc = "L12"
    /\ \/ /\ host.hasUname
          /\ print(Line("", "OS uname: ", host.uname))
          /\ pc' = "L13"
       \/ /\ ~host.hasUname
          /\ pc' = "exited"
          /\ exitCode' = 1
          /\ stderr' = Append(stderr, "AttributeError: module 'os' has no attribute 'uname'")
          /\ UNCHANGED <<host, env, fs, out, run, prevOut, prevExit>>

\* Variant: another variable is looked up.
PrintOstypeWrongKey ==
    /\ pc = "L13"
    /\ print(Line("", "Environment OSTYPE: ", EnvGet("HOSTTYPE", "not set")))
    /\ pc' = "L16"

\* Variant: os.environ.setdefault('OSTYPE', 'not set'), which sets the variable.
PrintOstypeSetdefault ==
    /\ pc = "L13"
    /\ out' = Append(out, Line("", "Environment OSTYPE: ", EnvGet("OSTYPE", "not set")))
    /\ env' = [n \in DOMAIN env \cup {"OSTYPE"} |-> IF n \in DOMAIN env THEN env[n] ELSE "not set"]
    /\ pc' = "L16"
    /\ UNCHANGED <<host, fs, stderr, exitCode, run, prevOut, prevExit>>

\* Variant: os.environ['OSTYPE'], which raises KeyError when the variable is unset.
PrintOstypeSubscript ==
    /\ pc = "L13"
    /\ \/ /\ "OSTYPE" \in DOMAIN env
          /\ print(Line("", "Environment OSTYPE: ", env["OSTYPE"]))
          /\ pc' = "L16"
       \/ /\ "OSTYPE" \notin DOMAIN env
          /\ pc' = "exited"
          /\ exitCode' = 1
          /\ stderr' = Append(stderr, "KeyError: 'OSTYPE'")
          /\ UNCHANGED <<host, env, fs, out, run, prevOut, prevExit>>

PrintOstype ==
    /\ pc = "L13"
    /\ print(Line("", "Environment OSTYPE: ", EnvGet("OSTYPE", "not set")))
    /\ pc' = "L16"

PrintVirtHeader ==
    /\ pc = "L16"
    /\ print(Line("\n", "=== Virtualization Check ===", ""))
    /\ pc' = "L17"

\* Variant: the line carries the label of the next one.
PrintProcMislabelled ==
    /\ pc = "L17"
    /\ print(Line("", "/sys exists: ", PyBool(PathExists("/proc"))))
    /\ pc' = "L18"

PrintProc ==
    /\ pc = "L17"
    /\ print(Line("", "/proc exists: ", PyBool(PathExists("/proc"))))
    /\ pc' = "L18"

PrintSys ==
    /\ pc = "L18"
    /\ print(Line("", "/sys exists: ", PyBool(PathExists("/sys"))))
    /\ pc' = "L19"

\* Variant: the directory is created once it was probed.
PrintRunCreates ==
    /\ pc = "L19"
    /\ out' = Append(out, Line("", "/run exists: ", PyBool(PathExists("/run"))))
    /\ fs' = [fs EXCEPT !["/run"] = IF @ = "absent" THEN "present" ELSE @]
    /\ pc' = "L20"
    /\ UNCHANGED <<host, env, stderr, exitCode, run, prevOut, prevExit>>

PrintRun ==
    /\ pc = "L19"
    /\ print(Line("", "/run exists: ", PyBool(PathExists("/run"))))
    /\ pc' = "L20"

\* Variant: the statement at line 23 is skipped.
PrintLib64Skip ==
    /\ pc = "L20"
    /\ print(Line("", "/lib64 exists: ", PyBool(PathExists("/lib64"))))
    /\ pc' = "L24"

PrintLib64 ==
    /\ pc = "L20"
    /\ print(Line("", "/lib64 exists: ", PyBool(PathExists("/lib64"))))
    /\ pc' = "L23"

\* Variant: another path is probed.
PrintSystemDirWrongPath ==
    /\ pc = "L23"
    /\ print(Line("", "/System exists: ", PyBool(PathExists("/Applications"))))
    /\ pc' = "L24"

PrintSystemDir ==
    /\ pc = "L23"
    /\ print(Line("", "/System exists: ", PyBool(PathExists("/System"))))
    /\ pc' = "L24"

PrintApplications ==
    /\ pc = "L24"
    /\ print(Line("", "/Applications exists: ", PyBool(PathExists("/Applications"))))
    /\ pc' = "L25"

\* Variant: os.stat is called directly and its OSError is not caught.
PrintDyldStat ==
    /\ pc = "L25"
    /\ \/ /\ fs["/usr/lib/dyld"] = "present"
          /\ print(Line("", "/usr/lib/dyld exists: ", "True"))
          /\ pc' = "L27"
       \/ /\ fs["/usr/lib/dyld"] # "present"
          /\ pc' = "exited"
          /\ exitCode' = 1
          /\ stderr' = Append(stderr, "OSError: '/usr/lib/dyld'")
          /\ UNCHANGED <<host, env, fs, out, run, prevOut, prevExit>>

PrintDyld ==
    /\ pc = "L25"
    /\ print(Line("", "/usr/lib/dyld exists: ", PyBool(PathExists("/usr/lib/dyld"))))
    /\ pc' = "L27"

PrintMesonHeader ==
    /\ pc = "L27"
    /\ print(Line("\n", "=== Manual Meson Check ===", ""))
    /\ pc' = "L28"

PrintHint ==
    /\ pc = "L28"
    /\ print(Line("", "Try running: python3 -c \"import platform; print(platform.system())\"", ""))
    /\ pc' = "end"

\* The end of the module is reached: the interpreter exits with 0.
Finish ==
    /\ pc = "end"
    /\ pc' = "exited"
    /\ exitCode' = 0
    /\ UNCHANGED <<host, env, fs, out, stderr, run, prevOut, prevExit>>

\* The script is invoked again on the same host; a new process starts from
\* line 7 with empty output.
Rerun ==
    /\ pc = "exited"
    /\ run < MaxRuns
    /\ run' = run + 1
    /\ prevOut' = out
    /\ prevExit' = exitCode
    /\ out' = <<>>
    /\ stderr' = <<>>
    /\ exitCode' = 0
    /\ pc' = "L7"
    /\ UNCHANGED <<host, env, fs>>

\* One statement of the script.
Step ==
    \/ PrintHeader
    \/ PrintSystem
    \/ PrintMachine
    \/ PrintPlatform
    \/ PrintSysPlatform
    \/ PrintUname
    \/ PrintOstype
    \/ PrintVirtHeader
    \/ PrintProc
    \/ PrintSys
    \/ PrintRun
    \/ PrintLib64
    \/ PrintSystemDir
    \/ PrintApplications
    \/ PrintDyld
    \/ PrintMesonHeader
    \/ PrintHint
    \/ Finish

Next == Step \/ Rerun

Spec == Init /\ [][Next]_vars

\* The interpreter runs the statements one after the other without suspension.
LiveSpec == Init /\ [][Next]_vars /\ WF_vars(Step)

-----------------------------------------------------------------------------
(* Properties of the script.                                               *)

Succeeded == pc = "exited" /\ exitCode = 0

Failed == pc = "exited" /\ exitCode # 0

HasLine(label) == \E k \in DOMAIN out : out[k].label = label

Printed(line) == \E k \in DOMAIN out : out[k] = line

\* The text of a line is not empty.
NonEmpty(line) == line.pre # "" \/ line.label # "" \/ line.value # ""

\* The label of the line of each probed path, in the order of Paths.
PathLabels ==
    <<"/proc exists: ", "/sys exists: ", "/run exists: ", "/lib64 exists: ",
      "/System exists: ", "/Applications exists: ", "/usr/lib/dyld exists: ">>

\* The statement that probes each path, and the one after it.
PathPc == <<"L17", "L18", "L19", "L20", "L23", "L24", "L25">>

PathNextPc == <<"L18", "L19", "L20", "L23", "L24", "L25", "L27">>

\* The labels of a whole run, top to bottom.
ExpectedLabels ==
    <<"=== Host Detection Debug ===",
      "Python platform.system(): ", "Python platform.machine(): ",
      "Python platform.platform(): ", "Python sys.platform: ",
      "OS uname: ", "Environment OSTYPE: ",
      "=== Virtualization Check ===">>
    \o PathLabels \o
    <<"=== Manual Meson Check ===",
      "Try running: python3 -c \"import platform; print(platform.system())\"">>

\* The labels the documentation names: the platform lines, the uname line,
\* the OSTYPE line and the path lines.
DocumentedLabels ==
    { "Python platform.system(): ", "Python platform.machine(): ",
      "Python platform.platform(): ", "Python sys.platform: ",
      "OS uname: ", "Environment OSTYPE: " }
    \cup { PathLabels[i] : i \in DOMAIN PathLabels }

AllDocumentedLines ==
    \A l \in DocumentedLabels : \E k \in DOMAIN out : out[k].label = l /\ NonEmpty(out[k])

\* What is printed before the statement at line 12.
UnamePrefix ==
    << Line("", "=== Host Detection Debug ===", ""),
       Line("", "Python platform.system(): ", host.system),
       Line("", "Python platform.machine(): ", host.machine),
       Line("", "Python platform.platform(): ", host.platform),
       Line("", "Python sys.platform: ", host.sysplatform) >>

\* C1: the OSTYPE line shows the value of the variable OSTYPE when it is set
\* (the empty string included) and 'not set' when it is unset, whatever other
\* variables are set; the lookup never fails, so a run on a host with uname
\* always has the line.
C1_OstypeLine ==
    /\ \A k \in DOMAIN out :
          out[k].label = "Environment OSTYPE: " =>
             out[k].value = (IF "OSTYPE" \in DOMAIN env THEN env["OSTYPE"] ELSE "not set")
    /\ (pc = "exited" /\ host.hasUname) => HasLine("Environment OSTYPE: ")

C1_Witness ==
    /\ pc = "exited"
    /\ "OSTYPE" \notin DOMAIN env
    /\ "HOSTTYPE" \in DOMAIN env
    /\ Printed(Line("", "Environment OSTYPE: ", "not set"))

\* C2 as stated: each path line reports True exactly when the path exists on
\* the host.
C2_TrueIffOnHost ==
    \A i \in DOMAIN Paths : \A k \in DOMAIN out :
        out[k].label = PathLabels[i] => out[k].value = PyBool(OnHost(Paths[i]))

\* C2, amended: each path line reports True exactly when the path exists and
\* can be stat'ed by the process, and False when it is absent or its stat is
\* refused; a successful run has the line of each of the seven paths.
C2_TrueIffStatSucceeds ==
    /\ \A i \in DOMAIN Paths : \A k \in DOMAIN out :
          out[k].label = PathLabels[i] =>
             out[k].value = (IF fs[Paths[i]] = "present" THEN "True" ELSE "False")
    /\ Succeeded => \A i \in DOMAIN Paths : HasLine(PathLabels[i])

C2_Witness ==
    /\ Succeeded
    /\ fs["/proc"] = "present"
    /\ fs["/System"] = "absent"
    /\ fs["/usr/lib/dyld"] = "denied"
    /\ Printed(Line("", "/proc exists: ", "True"))
    /\ Printed(Line("", "/System exists: ", "False"))
    /\ Printed(Line("", "/usr/lib/dyld exists: ", "False"))

\* C3: on a host with uname, whatever the environment and the filesystem, a
\* run that starts ends with exit code 0, having printed a non-empty line
\* for each documented label.
C3_TerminatesWithAllLines ==
    (pc = "L7" /\ host.hasUname) ~> (Succeeded /\ AllDocumentedLines)

C3_Witness ==
    /\ Succeeded
    /\ host.hasUname
    /\ AllDocumentedLines
    /\ \E p \in PathSet : fs[p] = "denied"

\* C4: a second run on the same host ends with the output and the exit code
\* of the run before it.
C4_Idempotent ==
    (run > 1 /\ pc = "exited") => (out = prevOut /\ exitCode = prevExit)

C4_Witness ==
    /\ run > 1
    /\ Succeeded
    /\ out = prevOut
    /\ Len(out) = Len(ExpectedLabels)

\* C5: where os.uname is unsupported, the statement at line 12 ends the run
\* with a non-zero exit code and prints nothing.
C5_UnameFailureFatal ==
    [][ (pc = "L12" /\ ~host.hasUname) =>
           (pc' = "exited" /\ exitCode' # 0 /\ out' = out) ]_vars

C5_Witness ==
    /\ Failed
    /\ ~host.hasUname
    /\ stderr # <<>>
    /\ ~HasLine("OS uname: ")

\* C6: a run ends with a non-zero exit code exactly when os.uname is
\* unsupported; nothing is written to stderr on a host with uname.
C6_OnlyUnameFails ==
    /\ pc = "exited" => (exitCode # 0 <=> ~host.hasUname)
    /\ stderr # <<>> => (~host.hasUname /\ pc = "exited")

C6_Witness ==
    /\ Succeeded
    /\ host.hasUname
    /\ "OSTYPE" \notin DOMAIN env
    /\ \E p \in PathSet : fs[p] = "absent"
    /\ \E p \in PathSet : fs[p] = "denied"

\* C7: the probe of a path whose stat is refused prints False for the path
\* and goes on to the next statement.
C7_DeniedReportsFalse ==
    [][ \A i \in DOMAIN Paths :
          (pc = PathPc[i] /\ fs[Paths[i]] = "denied") =>
             (out' = Append(out, Line("", PathLabels[i], "False")) /\ pc' = PathNextPc[i]) ]_vars

C7_Witness ==
    /\ Succeeded
    /\ \A i \in DOMAIN Paths :
          fs[Paths[i]] = "denied" /\ Printed(Line("", PathLabels[i], "False"))

C9_FixedOrder ==
    /\ Len(out) <= Len(ExpectedLabels)
    /\ \A k \in DOMAIN out : out[k].label = ExpectedLabels[k]
    /\ Succeeded => Len(out) = Len(ExpectedLabels)

C9_Witness ==
    /\ Succeeded
    /\ host.system = "Darwin"
    /\ Len(out) = Len(ExpectedLabels)

\* C10: where os.uname is unsupported, the output at the end of the run is
\* the main header and the four platform lines, and no other line is ever
\* printed.
C10_PartialOutput ==
    ~host.hasUname =>
        /\ Len(out) <= Len(UnamePrefix)
        /\ \A k \in DOMAIN out : out[k] = UnamePrefix[k]
        /\ pc = "exited" => out = UnamePrefix

C10_Witness ==
    /\ ~host.hasUname
    /\ pc = "exited"
    /\ out = UnamePrefix

=============================================================================
